---- MODULE Spec2Model ----
(***************************************************************************)
(* A model of actiongraph: the `graph --why PKG` reachability filter       *)
(* (graph.go: graph, pathfind) and the `tree` aggregator (buildTree,       *)
(* pruneTree, tree).  Strings are sequences of one-character strings so    *)
(* that the code's slicing, cutting and trimming are computed, not assumed.*)
(***************************************************************************)
EXTENDS Integers, Sequences, FiniteSets, TLC

\* ------------------------------------------------------------------ bounds
MaxSteps == 3
MaxEdges == 3
MaxStack == 4
MaxTreeSteps == 2
MaxFocus == 2
MaxLevel == 0

\* ------------------------------------------------- program constants
avoid == -1
unknown == 0
follow == 1

\* ------------------------------------------------------------------ inputs
PkgT == <<"a", ".", "b">>
PkgO == <<"x">>
NoPkg == <<>>

Ids(n) == 0 .. (n - 1)

\* The orderings of a set of step ids as a dependency list.
Orders(S) ==
  { s \in [1 .. Cardinality(S) -> S] : \A i, j \in DOMAIN s : i # j => s[i] # s[j] }

\* The sets of at most MaxEdges dependency references among n steps; no step
\* names itself.
EdgeSets(n) ==
  { E \in SUBSET { e \in Ids(n) \X Ids(n) : e[1] # e[2] } : Cardinality(E) <= MaxEdges }

\* The dependency lists of steps 0 .. k-1: the references of E in every order.
RECURSIVE DepLists(_, _)
DepLists(E, k) ==
  IF k = 0 THEN { <<>> }
  ELSE { [i \in Ids(k) |-> IF i = k - 1 THEN o ELSE f[i]] :
           f \in DepLists(E, k - 1),
           o \in Orders({ j \in Ids(MaxSteps + 1) : <<k - 1, j>> \in E }) }

GraphKinds ==
  { [Mode |-> "build", Package |-> PkgT],
    [Mode |-> "build", Package |-> PkgO],
    [Mode |-> "nop", Package |-> NoPkg],
    [Mode |-> "link", Package |-> PkgT] }

\* A decoded step sequence: ID equals the array position.
GraphActions(k, d) ==
  [i \in DOMAIN k |-> [ID |-> i, Mode |-> k[i].Mode, Package |-> k[i].Package,
                        Deps |-> d[i], Duration |-> 1]]

VARIABLES actions, pc, err, out,            \* the step sequence, the position, the result
          why, show, shown, stack,          \* graph, pathfind
          expanded,                         \* history: the appends of pathfind, by step
          focus, level, tree, keep, work, dirs  \* tree, pruneTree

gvars == <<why, show, shown, stack, expanded>>
tvars == <<focus, level, tree, keep, work, dirs>>
vars == <<actions, pc, err, out, gvars, tvars>>

NumActions == Cardinality(DOMAIN actions)

\* ------------------------------------------------------------------ graph
\* graph.go:38-48: the mark array, zeroed, with the nop steps avoided.
NopMarked ==
  [i \in DOMAIN actions |->
     IF \E j \in DOMAIN actions : actions[j].Mode = "nop" /\ actions[j].ID = i
     THEN avoid ELSE unknown]

\* Mutant of FirstMatch: the loop does not stop at the first match, the last
\* match is the one marked.
LastMatch ==
  CHOOSE i \in { j \in DOMAIN actions : actions[j].Mode = "build" /\ actions[j].Package = why } :
    \A j \in DOMAIN actions :
      (actions[j].Mode = "build" /\ actions[j].Package = why) => j <= i

\* Mutant of Matches: the mode of the step is not looked at.
MatchesAnyMode == { i \in DOMAIN actions : actions[i].Package = why }

\* graph.go:52-58: the steps matching the destination, lowest index first.
Matches == { i \in DOMAIN actions : actions[i].Mode = "build" /\ actions[i].Package = why }

FirstMatch == CHOOSE i \in Matches : \A j \in Matches : i <= j

\* graph.go:73-79: the first build step, -1 when there is none.
BuildIds == { i \in DOMAIN actions : actions[i].Mode = "build" }

FirstBuild ==
  IF BuildIds = {} THEN -1
  ELSE actions[CHOOSE i \in BuildIds : \A j \in BuildIds : i <= j].ID

\* Mutant of ShowAll: the avoided steps are shown too.
ShowEvery(g) == [i \in DOMAIN g |-> follow]

\* graph.go:66-70: with nothing to look for, every step not avoided is shown.
ShowAll(g) == [i \in DOMAIN g |-> IF g[i] # avoid THEN follow ELSE g[i]]

\* Mutant of NotFound: the count is compared the wrong way.
NotFoundNever(n) == why # <<>> /\ n < 0

\* graph.go:59-61: a destination was asked for and no step matched it.
NotFound(n) == why # <<>> /\ n = 0

GraphBegin ==
  /\ pc = "graph"
  /\ LET marked == NopMarked
         found == why # <<>> /\ Matches # {}
         g == IF found THEN [marked EXCEPT ![FirstMatch] = follow] ELSE marked
         n == IF found THEN 1 ELSE 0
     IN  IF NotFound(n)
         THEN /\ err' = "could not find package"
              /\ pc' = "done"
              /\ show' = g
              /\ shown' = n
              /\ UNCHANGED stack
         ELSE IF n = 0
         THEN /\ show' = ShowAll(g)
              /\ shown' = n
              /\ pc' = "render"
              /\ UNCHANGED <<err, stack>>
         ELSE IF FirstBuild = -1
         THEN /\ err' = "no first build step"
              /\ pc' = "done"
              /\ show' = g
              /\ shown' = n
              /\ UNCHANGED stack
         ELSE /\ show' = g
              /\ shown' = n
              /\ stack' = << <<FirstBuild>> >>
              /\ pc' = "pathfind"
              /\ UNCHANGED err
  /\ UNCHANGED <<actions, why, out, expanded, tvars>>

\* ---------------------------------------------------------------- pathfind
edges(n) == actions[n].Deps

\* Mutant of MarkPath: every entry of every frame is marked, not only the heads.
MarkPathFrames(g, st) ==
  [i \in DOMAIN g |->
     IF \E d \in DOMAIN st : \E k \in DOMAIN st[d] : st[d][k] = i THEN follow ELSE g[i]]

\* Mutant of MarkPath: only the step just visited is marked.
MarkPathTop(g, st) ==
  [i \in DOMAIN g |-> IF st[Len(st)][1] = i THEN follow ELSE g[i]]

\* graph.go:132-134: every frame's head becomes follow.
MarkPath(g, st) ==
  [i \in DOMAIN g |-> IF \E d \in DOMAIN st : st[d][1] = i THEN follow ELSE g[i]]

\* Mutant of Trim: a frame that has more entries is not moved on to its next one.
RECURSIVE TrimNoAdvance(_, _)
TrimNoAdvance(g, st) ==
  IF st = <<>>
  THEN [guide |-> g, stack |-> st]
  ELSE LET d == Len(st)
           s == st[d]
           m == s[1]
           g2 == IF g[m] # follow THEN [g EXCEPT ![m] = avoid] ELSE g
       IN  IF Len(s) = 1
           THEN TrimNoAdvance(g2, SubSeq(st, 1, d - 1))
           ELSE [guide |-> g2, stack |-> st]

\* Mutant of Trim: a frame is moved on even from its last entry, and is popped
\* no sooner than the pass after.
TrimLeavesEmpty(g, st) ==
  IF st = <<>>
  THEN [guide |-> g, stack |-> st]
  ELSE LET d == Len(st)
           s == st[d]
           m == s[1]
           g2 == IF g[m] # follow THEN [g EXCEPT ![m] = avoid] ELSE g
       IN  [guide |-> g2, stack |-> [st EXCEPT ![d] = Tail(s)]]

\* Mutant of Trim: popped heads are left as they are.
RECURSIVE TrimNoAvoid(_, _)
TrimNoAvoid(g, st) ==
  IF st = <<>>
  THEN [guide |-> g, stack |-> st]
  ELSE LET d == Len(st)
           s == st[d]
       IN  IF Len(s) = 1
           THEN TrimNoAvoid(g, SubSeq(st, 1, d - 1))
           ELSE [guide |-> g, stack |-> [st EXCEPT ![d] = Tail(s)]]

\* graph.go:138-151: pop the finished frames, avoiding heads that are not follow.
RECURSIVE Trim(_, _)
Trim(g, st) ==
  IF st = <<>>
  THEN [guide |-> g, stack |-> st]
  ELSE LET d == Len(st)
           s == st[d]
           m == s[1]
           g2 == IF g[m] # follow THEN [g EXCEPT ![m] = avoid] ELSE g
       IN  IF Len(s) = 1
           THEN Trim(g2, SubSeq(st, 1, d - 1))
           ELSE [guide |-> g2, stack |-> [st EXCEPT ![d] = Tail(s)]]

\* Mutant of Expand: the mark of the step is not looked at.
ExpandAlways(g, n) == Len(edges(n)) > 0

\* graph.go:125-129: a step is expanded when it is unknown and has dependencies.
Expand(g, n) == g[n] = unknown /\ Len(edges(n)) > 0

\* Mutant of Resolve: an unknown step without dependencies resolves as a follow
\* step does.
ResolveLeaf(g, st, n) ==
  IF g[n] = follow \/ (g[n] = unknown /\ Len(edges(n)) = 0) THEN MarkPath(g, st) ELSE g

\* graph.go:121-135: the switch on the mark of a step that is not expanded; only
\* the follow case marks the path, the cases do not fall through.
Resolve(g, st, n) == IF g[n] = follow THEN MarkPath(g, st) ELSE g

\* One iteration of the loop of graph.go:116-152.
PathfindStep ==
  /\ pc = "pathfind"
  /\ stack # <<>>
  /\ Len(stack) <= MaxStack
  /\ LET n == stack[Len(stack)][1]
     IN  IF Expand(show, n)
         THEN /\ stack' = Append(stack, edges(n))
              /\ expanded' = [expanded EXCEPT ![n] = @ + 1]
              /\ UNCHANGED show
         ELSE LET t == Trim(Resolve(show, stack, n), stack)
              IN  /\ show' = t.guide
                  /\ stack' = t.stack
                  /\ UNCHANGED expanded
  /\ UNCHANGED <<actions, why, shown, pc, err, out, tvars>>

\* graph.go:116: the loop ends with the stack empty and graph goes on to render.
PathfindReturn ==
  /\ pc = "pathfind"
  /\ stack = <<>>
  /\ pc' = "render"
  /\ UNCHANGED <<actions, why, show, shown, stack, expanded, err, out, tvars>>

\* ------------------------------------------------------------------ render
\* Mutant of EdgeLines: the mark of the dependency is not looked at.
RECURSIVE EdgeLinesAll(_, _)
EdgeLinesAll(i, deps) ==
  IF deps = <<>> THEN <<>>
  ELSE << [kind |-> "edge", from |-> i, to |-> Head(deps), stream |-> "os.Stdout"] >>
       \o EdgeLinesAll(i, Tail(deps))

\* graph.go:96-101: one line per dependency that is shown.
RECURSIVE EdgeLines(_, _)
EdgeLines(i, deps) ==
  IF deps = <<>> THEN <<>>
  ELSE (IF show[Head(deps)] # follow THEN <<>>
        ELSE << [kind |-> "edge", from |-> i, to |-> Head(deps), stream |-> "os.Stdout"] >>)
       \o EdgeLines(i, Tail(deps))

RECURSIVE NodeLines(_)
NodeLines(i) ==
  IF i >= NumActions THEN <<>>
  ELSE (IF show[i] # follow THEN <<>>
        ELSE << [kind |-> "node", from |-> i, to |-> i, stream |-> "opt.stdout"] >>
             \o EdgeLines(i, actions[i].Deps))
       \o NodeLines(i + 1)

Header == [kind |-> "digraph {", from |-> -1, to |-> -1, stream |-> "opt.stdout"]
Footer == [kind |-> "}", from |-> -1, to |-> -1, stream |-> "opt.stdout"]

\* graph.go:88-105.
Render ==
  /\ pc = "render"
  /\ out' = <<Header>> \o NodeLines(0) \o <<Footer>>
  /\ pc' = "done"
  /\ UNCHANGED <<actions, why, show, shown, stack, expanded, err, tvars>>

\* ------------------------------------------------------------------ strings
\* A Go string is a sequence of one-character strings; Go index i is element i + 1.
Slice(s, a, b) == SubSeq(s, a + 1, b)

\* strings.Index(s, c) for a one-character c: the first index of c, or -1.
Index(s, c) ==
  IF \E i \in DOMAIN s : s[i] = c
  THEN (CHOOSE i \in DOMAIN s : s[i] = c /\ \A j \in DOMAIN s : j < i => s[j] # c) - 1
  ELSE -1

\* strings.Cut(s, c): the part of s before the first c, or s when there is none.
CutBefore(s, c) == IF Index(s, c) = -1 THEN s ELSE Slice(s, 0, Index(s, c))

Contains(s, c) == Index(s, c) # -1

\* strings.TrimRight(s, cutset): s without its trailing characters of cutset.
RECURSIVE TrimRight(_, _)
TrimRight(s, cutset) ==
  IF s # <<>> /\ s[Len(s)] \in cutset
  THEN TrimRight(Slice(s, 0, Len(s) - 1), cutset)
  ELSE s

\* ------------------------------------------------------------------ buildTree
RootPath == <<"(root)">>
StdPrefix == <<"s", "t", "d", "/">>

\* Mutant of isStdlib: the whole path is searched for a dot, not its first segment.
isStdlibWhole(pkg) == ~Contains(pkg, ".")

\* part_001:178-181, isStdlib: the first segment holds no dot.
isStdlib(pkg) == ~Contains(CutBefore(pkg, "/"), ".")

\* The path the tree is built from: the standard library under "std/".
Rooted(pkg) == IF isStdlib(pkg) THEN StdPrefix \o pkg ELSE pkg

NewNode(path, depth) == [path |-> path, depth |-> depth, d |-> 0, id |-> -1, dir |-> {}]

\* The nodes of a tree are held by path; dir is the key set of a node's map, and
\* the node at a key is the node of that path.
NewTree == [p \in {RootPath} |-> NewNode(RootPath, 0)]

\* Mutant of AddDuration: the duration replaces what the node held.
SetDuration(t, path, dur) == [t EXCEPT ![path].d = dur]

\* actNode.d += act.Duration
AddDuration(t, path, dur) == [t EXCEPT ![path].d = @ + dur]

\* The loop of buildTree over the prefixes of pkg, from the node actNode at offset p.
RECURSIVE Descend(_, _, _, _, _, _)
Descend(t, actNode, pkg, p, depth, act) ==
  LET depth1 == depth + 1
      pn == Index(Slice(pkg, p + 1, Len(pkg)), "/")
      more == pn # -1
      p1 == IF pn = -1 THEN Len(pkg) ELSE p + pn + 1
      path == Slice(pkg, 0, p1)
      t1 == IF path \in t[actNode].dir
            THEN t
            ELSE [q \in DOMAIN t \cup {path} |->
                    IF q = path THEN NewNode(path, depth1)
                    ELSE IF q = actNode THEN [t[q] EXCEPT !.dir = @ \cup {path}]
                    ELSE t[q]]
      t2 == AddDuration(t1, path, act.Duration)
  IN  IF more
      THEN Descend(t2, path, pkg, p1, depth1, act)
      ELSE [t2 EXCEPT ![path].id = act.ID]

\* Mutant of AddStep: the mode of the step is not looked at.
AddStepAnyMode(t, act) ==
  Descend(AddDuration(t, RootPath, act.Duration), RootPath, Rooted(act.Package), 0, 0, act)

\* One pass of the loop of buildTree: steps of another mode are skipped.
AddStep(t, act) ==
  IF act.Mode # "build" THEN t
  ELSE Descend(AddDuration(t, RootPath, act.Duration), RootPath, Rooted(act.Package), 0, 0, act)

\* buildTree over acts[from], acts[from + 1], ...
RECURSIVE BuildFrom(_, _, _)
BuildFrom(t, acts, from) ==
  IF from \notin DOMAIN acts THEN t
  ELSE BuildFrom(AddStep(t, acts[from]), acts, from + 1)

buildTree(acts) == BuildFrom(NewTree, acts, 0)

\* ------------------------------------------------------------------ tree inputs
AB == <<"a", ".", "b">>
ABC == <<"a", ".", "b", "/", "c">>
ABCD == <<"a", ".", "b", "/", "c", "/", "d">>
ABCE == <<"a", ".", "b", "/", "c", "/", "e">>
ABCC == <<"a", ".", "b", "/", "c", "c">>
X == <<"x">>
XYZ == <<"x", "/", "y", ".", "z">>
ABCSlashDot == <<"a", ".", "b", "/", "c", "/", ".">>

TreePkgs == {AB, ABC, ABCD, ABCE, ABCC, X, XYZ}

\* A short and a long step.
Durations == {1, 2}

\* A build step of any package and duration, or a link step, which is no build step.
TreeSteps ==
  [Mode : {"build"}, Package : TreePkgs, Duration : Durations]
    \cup [Mode : {"link"}, Package : {AB}, Duration : {1}]

TreeActions(k) ==
  [i \in DOMAIN k |-> [ID |-> i, Mode |-> k[i].Mode, Package |-> k[i].Package,
                        Deps |-> <<>>, Duration |-> k[i].Duration]]

\* The package arguments of the command line, in a fixed order without repetition.
FocusArgs == <<AB, ABCSlashDot, ABCD, X>>

FocusLists ==
  { [i \in DOMAIN idx |-> FocusArgs[idx[i]]] :
      idx \in { s \in UNION { [1 .. k -> DOMAIN FocusArgs] : k \in 0 .. MaxFocus } :
                  \A i, j \in DOMAIN s : i < j => s[i] < s[j] } }

\* ------------------------------------------------------------------ tree
\* part_001:52-59: one build step of ID 0 per focus argument, trimmed of "/" and ".".
filterActs(f) ==
  [i \in Ids(Len(f)) |-> [ID |-> 0, Mode |-> "build",
                           Package |-> TrimRight(f[i + 1], {"/", "."}),
                           Deps |-> <<>>, Duration |-> 0]]

\* part_001:49.
TreeBuild ==
  /\ pc = "tree"
  /\ tree' = buildTree(actions)
  /\ pc' = "focus"
  /\ UNCHANGED <<actions, err, out, gvars, focus, level, keep, work, dirs>>

\* part_001:51-60: with focus arguments the tree is pruned to the tree built of them.
TreeFocus ==
  /\ pc = "focus"
  /\ \E f \in FocusLists :
       /\ focus' = f
       /\ IF Len(f) # 0
          THEN /\ keep' = buildTree(filterActs(f))
               /\ work' = << [r |-> RootPath, k |-> keep'[RootPath]] >>
               /\ pc' = "prune"
          ELSE /\ pc' = "walk"
               /\ UNCHANGED <<keep, work>>
  /\ UNCHANGED <<actions, err, out, gvars, level, tree, dirs>>

\* ------------------------------------------------------------------ pruneTree
\* A child of a branch node of keep: its depth is reset, and it stays only if keep
\* has its path.
RECURSIVE BranchJobs(_, _)
BranchJobs(k, ord) ==
  IF ord = <<>> THEN <<>>
  ELSE (IF Head(ord) \in k.dir THEN << [r |-> Head(ord), k |-> keep[Head(ord)]] >> ELSE <<>>)
       \o BranchJobs(k, Tail(ord))

\* Mutant of PruneBranch: the children that keep does not have are not deleted.
PruneBranchKeepAll(t, j, ord) ==
  [tree |-> [q \in DOMAIN t |-> IF q \in t[j.r].dir THEN [t[q] EXCEPT !.depth = 0] ELSE t[q]],
   jobs |-> BranchJobs(j.k, ord)]

\* Mutant of PruneBranch: the durations of the deleted children are taken off the
\* node that loses them.
RECURSIVE Lost(_, _)
Lost(t, S) ==
  IF S = {} THEN 0
  ELSE LET q == CHOOSE q \in S : TRUE IN t[q].d + Lost(t, S \ {q})

PruneBranchRecount(t, j, ord) ==
  [tree |-> [q \in DOMAIN t |->
               IF q \in t[j.r].dir THEN [t[q] EXCEPT !.depth = 0]
               ELSE IF q = j.r THEN [t[q] EXCEPT !.dir = @ \cap j.k.dir,
                                                 !.d = @ - Lost(t, t[q].dir \ j.k.dir)]
               ELSE t[q]],
   jobs |-> BranchJobs(j.k, ord)]

\* part_001:197-208.
PruneBranch(t, j, ord) ==
  [tree |-> [q \in DOMAIN t |->
               IF q \in t[j.r].dir THEN [t[q] EXCEPT !.depth = 0]
               ELSE IF q = j.r THEN [t[q] EXCEPT !.dir = @ \cap j.k.dir]
               ELSE t[q]],
   jobs |-> BranchJobs(j.k, ord)]

\* Mutant of FocusJobs: the placeholder does not carry the depth of the focus node.
RECURSIVE FocusJobsNoDepth(_, _)
FocusJobsNoDepth(k, ord) ==
  IF ord = <<>> THEN <<>>
  ELSE << [r |-> Head(ord),
           k |-> IF Head(ord) \in k.dir THEN keep[Head(ord)]
                 ELSE [path |-> Head(ord), depth |-> 0, d |-> 0, id |-> 0, dir |-> {}]] >>
       \o FocusJobsNoDepth(k, Tail(ord))

\* A child of a focus node goes on with keep's node of its path, or with a
\* placeholder of ID 0 that carries the depth of the focus node.
RECURSIVE FocusJobs(_, _)
FocusJobs(k, ord) ==
  IF ord = <<>> THEN <<>>
  ELSE << [r |-> Head(ord),
           k |-> IF Head(ord) \in k.dir THEN keep[Head(ord)]
                 ELSE [path |-> Head(ord), depth |-> k.depth, d |-> 0, id |-> 0, dir |-> {}]] >>
       \o FocusJobs(k, Tail(ord))

\* part_001:209-224.
PruneFocus(t, j, ord) ==
  [tree |-> [q \in DOMAIN t |->
               IF q \in t[j.r].dir THEN [t[q] EXCEPT !.depth = @ - j.k.depth] ELSE t[q]],
   jobs |-> FocusJobs(j.k, ord)]

\* One pass of the loop of pruneTree (part_001:192-225); the children of the map are
\* ranged over in any order.
PruneStep ==
  /\ pc = "prune"
  /\ work # <<>>
  /\ LET j == work[Len(work)]
         rest == SubSeq(work, 1, Len(work) - 1)
     IN  \E ord \in Orders(tree[j.r].dir) :
           LET res == IF j.k.id = -1 THEN PruneBranch(tree, j, ord)
                      ELSE PruneFocus(tree, j, ord)
           IN  /\ tree' = res.tree
               /\ work' = rest \o res.jobs
  /\ UNCHANGED <<actions, pc, err, out, gvars, focus, level, keep, dirs>>

\* part_001:192: the work list is empty and pruneTree returns.
PruneReturn ==
  /\ pc = "prune"
  /\ work = <<>>
  /\ pc' = "walk"
  /\ UNCHANGED <<actions, err, out, gvars, tvars>>

\* ------------------------------------------------------------------ traversal
\* part_001:63: the stack of sibling groups starts with the root alone.
WalkBegin ==
  /\ pc = "walk"
  /\ \E l \in -1 .. MaxLevel : level' = l
  /\ dirs' = << <<RootPath>> >>
  /\ pc' = "emit"
  /\ UNCHANGED <<actions, err, out, gvars, focus, tree, keep, work>>

\* Mutant of treeAction: the indentation is the node's depth.
treeActionIndentDepth(n, last) ==
  [ID |-> n.id, Package |-> n.path, Depth |-> n.depth, Indent |-> n.depth,
   CumulativeDuration |-> n.d,
   Duration |-> IF n.id > 0 THEN actions[n.id].Duration ELSE 0]

\* part_001:80-90: what the template is given; the step's own fields are read only
\* for an id above 0.
treeAction(n, last) ==
  [ID |-> n.id, Package |-> n.path, Depth |-> n.depth, Indent |-> last,
   CumulativeDuration |-> n.d,
   Duration |-> IF n.id > 0 THEN actions[n.id].Duration ELSE 0]

\* Mutant of SortedKids: the children are pushed in the order the map gave them.
SortedKidsUnsorted(n) == Orders(n.dir)

\* part_001:99-100: the children by descending duration, ties in any order.
SortedKids(n) ==
  { s \in Orders(n.dir) : \A i, j \in DOMAIN s : i < j => tree[s[i]].d >= tree[s[j]].d }

\* part_001:42, the default template: the own-duration column of an emitted node
\* is blank for the ID -1 and holds the Duration otherwise.
OwnColumn(a) == IF a.ID = -1 THEN <<>> ELSE <<a.Duration>>

\* Mutant of StepInto: the children go under the groups that wait, not on top.
StepIntoBelow(groups, kids) == <<kids>> \o groups

\* part_001:101: the sorted children become the top group of the stack.
StepInto(groups, kids) == Append(groups, kids)

\* One pass of the loop of part_001:64-104.
WalkStep ==
  /\ pc = "emit"
  /\ dirs # <<>>
  /\ LET last == Len(dirs) - 1
         top == dirs[Len(dirs)]
     IN  IF top = <<>>
         THEN /\ dirs' = SubSeq(dirs, 1, Len(dirs) - 1)
              /\ UNCHANGED out
         ELSE LET n == tree[Head(top)]
                  taken == [dirs EXCEPT ![Len(dirs)] = Tail(top)]
              IN  IF level >= 0 /\ n.depth > level
                  THEN /\ dirs' = taken
                       /\ UNCHANGED out
                  ELSE /\ out' = Append(out, treeAction(n, last))
                       /\ IF n.dir # {}
                          THEN \E kids \in SortedKids(n) : dirs' = StepInto(taken, kids)
                          ELSE dirs' = taken
  /\ UNCHANGED <<actions, pc, err, gvars, focus, level, tree, keep, work>>

\* part_001:64, 105: the stack is empty and tree returns.
WalkReturn ==
  /\ pc = "emit"
  /\ dirs = <<>>
  /\ pc' = "done"
  /\ UNCHANGED <<actions, err, out, gvars, tvars>>

\* The tree command's variables while the graph command runs.
TreeIdle ==
  /\ focus = <<>>
  /\ level = -1
  /\ tree = NewTree
  /\ keep = NewTree
  /\ work = <<>>
  /\ dirs = <<>>

\* The graph command's variables while the tree command runs.
GraphIdle ==
  /\ why = <<>>
  /\ show = <<>>
  /\ shown = 0
  /\ stack = <<>>
  /\ expanded = <<>>

InitTree ==
  /\ \E n \in 0 .. MaxTreeSteps : \E k \in [Ids(n) -> TreeSteps] : actions = TreeActions(k)
  /\ pc = "tree"
  /\ err = ""
  /\ out = <<>>
  /\ TreeIdle
  /\ GraphIdle

NextTree == TreeBuild \/ TreeFocus \/ PruneStep \/ PruneReturn \/ WalkBegin \/ WalkStep \/ WalkReturn

SpecTree == InitTree /\ [][NextTree]_vars

\* The traversal runs on: the loop of part_001:64-104 has no wait in it, so a pass
\* that can be taken is taken.
SpecTreeFair == InitTree /\ [][NextTree]_vars /\ WF_vars(WalkStep \/ WalkReturn)

\* ------------------------------------------------------------------ tree properties
BuildSteps == { i \in DOMAIN actions : actions[i].Mode = "build" }

\* The sum of the durations of the steps of the set S.
RECURSIVE SumDur(_)
SumDur(S) ==
  IF S = {} THEN 0
  ELSE LET i == CHOOSE i \in S : TRUE IN actions[i].Duration + SumDur(S \ {i})

\* The sum of the cumulative durations of the nodes of the set S.
RECURSIVE SumNodes(_)
SumNodes(S) ==
  IF S = {} THEN 0
  ELSE LET q == CHOOSE q \in S : TRUE IN tree[q].d + SumNodes(S \ {q})

\* The path q is the path p continued from a "/".
Under(p, q) ==
  /\ Len(p) < Len(q)
  /\ SubSeq(q, 1, Len(p)) = p
  /\ q[Len(p) + 1] = "/"

\* The build steps a node of path p stands for: all of them for the root.
StepsAt(p) == { i \in BuildSteps : Rooted(actions[i].Package) = p }
StepsThrough(p) ==
  { i \in BuildSteps :
      p = RootPath \/ Rooted(actions[i].Package) = p \/ Under(p, Rooted(actions[i].Package)) }

\* buildTree has returned and pruneTree has not begun.
Built == pc = "focus"

\* C8: the root's cumulative duration is the sum of the durations of the build-mode
\* steps, each once; a step of another mode adds no duration and no node.
C8_Conservation ==
  Built =>
    /\ tree[RootPath].d = SumDur(BuildSteps)
    /\ \A p \in DOMAIN tree : StepsThrough(p) # {}  \/ (p = RootPath /\ tree[p].d = 0)

C8_Witness ==
  /\ Built
  /\ \E i, j \in DOMAIN actions :
       /\ actions[i].Mode = "build" /\ actions[j].Mode = "link"
       /\ Len(Rooted(actions[i].Package)) > 5
       /\ tree[RootPath].d = actions[i].Duration
       /\ tree[RootPath].d = 2

\* C9: every node's cumulative duration is the sum of the durations of the build
\* steps whose path is the node's path or continues it from a "/", duplicates
\* each added; it is the durations of the steps ending at the node plus the
\* cumulative durations of its children.
C9_RollUp ==
  Built =>
    \A p \in DOMAIN tree :
      /\ tree[p].d = SumDur(StepsThrough(p))
      /\ tree[p].d = SumDur(StepsAt(p)) + SumNodes(tree[p].dir)

C9_Witness ==
  /\ Built
  /\ \E i, j \in BuildSteps :
       /\ i # j
       /\ actions[i].Package = ABC /\ actions[j].Package = ABC
       /\ tree[ABC].d = actions[i].Duration + actions[j].Duration
       /\ tree[AB].d = tree[ABC].d

\* pruneTree has returned.
Pruned == focus # <<>> /\ pc \in {"walk", "emit", "done"}

\* The paths of the focus arguments as the tree holds them.
FocusPaths == { Rooted(TrimRight(focus[i], {"/", "."})) : i \in DOMAIN focus }

\* The nodes of the tree that the root still leads to.
RECURSIVE Remaining(_)
Remaining(S) ==
  LET T == S \cup UNION { tree[q].dir : q \in S }
  IN  IF T = S THEN S ELSE Remaining(T)

Leaves == { q \in Remaining({RootPath}) : tree[q].dir = {} }

\* C10 as stated: every remaining leaf is at or below every focus path that the
\* tree has.
C10_Original ==
  Pruned =>
    \A P \in FocusPaths : P \in DOMAIN tree =>
      \A q \in Leaves : q = P \/ Under(P, q)

\* C10 amended: when the tree has every focus path, every remaining leaf is at or
\* below at least one of them; with one focus path, at or below that path.
C10_Leaves ==
  (Pruned /\ FocusPaths \subseteq DOMAIN tree) =>
    \A q \in Leaves : \E P \in FocusPaths : q = P \/ Under(P, q)

C10_Witness ==
  /\ Pruned /\ FocusPaths \subseteq DOMAIN tree
  /\ Cardinality(FocusPaths) = 2
  /\ \E q \in Leaves : \E P1, P2 \in FocusPaths :
       (q = P1 \/ Under(P1, q)) /\ ~(q = P2 \/ Under(P2, q))

\* C11: after pruneTree the node at every focus path that the built tree has is
\* of depth 0, also when another focus path is above it.
C11_FocusDepth ==
  Pruned =>
    \A P \in FocusPaths : P \in Remaining({RootPath}) => tree[P].depth = 0

\* The number of nodes above the node of path p: the root and one node for each
\* "/" of the path.
Ancestors(p) ==
  IF p = RootPath THEN 0 ELSE 1 + Cardinality({ k \in DOMAIN p : p[k] = "/" })

\* The positions of the output that hold the node of a focus path.
FocusEmitted == { k \in DOMAIN out : focus # <<>> /\ out[k].Package \in FocusPaths }

\* C12 as stated: the node at a focus path is emitted with indentation 0.
C12_Original ==
  \A k \in FocusEmitted : out[k].Indent = 0

\* C12 amended: the node at a focus path is emitted with an indentation of the
\* number of nodes above it, the root included, which is 1 or more; what pruning
\* to a single focus path makes 0 is the Depth it is emitted with.
C12_Indent ==
  \A k \in FocusEmitted :
    /\ out[k].Indent = Ancestors(out[k].Package)
    /\ out[k].Indent >= 1
    /\ Len(focus) = 1 => out[k].Depth = 0

C12_Witness ==
  /\ pc = "done"
  /\ focus = <<ABCD>>
  /\ \E k \in FocusEmitted :
       out[k].Package = ABCD /\ out[k].Indent = 3 /\ out[k].Depth = 0

\* The path of the node above the node of path p: p up to its last "/", and the
\* root for a path without one.
Parent(p) ==
  LET S == { k \in DOMAIN p : p[k] = "/" }
  IN  IF S = {} THEN RootPath
      ELSE SubSeq(p, 1, (CHOOSE k \in S : \A m \in S : m <= k) - 1)

Siblings(p, q) == p # RootPath /\ q # RootPath /\ p # q /\ Parent(p) = Parent(q)

\* C13: of two emitted children of one node with different cumulative durations,
\* the one with the larger is emitted first.
C13_Ordering ==
  \A i, j \in DOMAIN out :
    (Siblings(out[i].Package, out[j].Package)
       /\ out[i].CumulativeDuration > out[j].CumulativeDuration) => i < j

C13_Witness ==
  /\ pc = "done"
  /\ \E i, j \in DOMAIN out :
       /\ i + 1 < j
       /\ Siblings(out[i].Package, out[j].Package)
       /\ out[i].CumulativeDuration > out[j].CumulativeDuration

\* C14: a node deeper than a level limit of 0 or more is not emitted, and a node
\* below it whose own depth is within the limit is still visited and emitted; so
\* the traversal emits exactly the nodes that remain and are within the limit.
C14_LevelLimit ==
  pc = "done" =>
    \A q \in Remaining({RootPath}) :
      (\E k \in DOMAIN out : out[k].Package = q) <=> (level < 0 \/ tree[q].depth <= level)

\* Every "." of the package path comes after a "/": its first segment has none.
NoDotFirst(pkg) ==
  \A k \in DOMAIN pkg : pkg[k] = "." => \E m \in 1 .. (k - 1) : pkg[m] = "/"

StdNode == <<"s", "t", "d">>
UnderStd(p) == p = StdNode \/ Under(StdNode, p)
StdSteps == { i \in BuildSteps : NoDotFirst(actions[i].Package) }

\* C15: buildTree puts a build step under the top-level node "std" exactly when
\* the first segment of its package path has no "."; a node under "std" holds the
\* durations of such steps only, and a node elsewhere those of the other steps only.
C15_StdSeparation ==
  Built =>
    /\ \A i \in BuildSteps :
         IF NoDotFirst(actions[i].Package)
         THEN StdPrefix \o actions[i].Package \in DOMAIN tree
                /\ actions[i].Package \notin DOMAIN tree
         ELSE actions[i].Package \in DOMAIN tree
                /\ StdPrefix \o actions[i].Package \notin DOMAIN tree
    /\ StdNode \in DOMAIN tree <=> StdSteps # {}
    /\ \A p \in DOMAIN tree \ {RootPath} :
         IF UnderStd(p)
         THEN tree[p].d = SumDur({ i \in StdSteps :
                            LET q == StdPrefix \o actions[i].Package IN q = p \/ Under(p, q) })
         ELSE tree[p].d = SumDur({ i \in BuildSteps \ StdSteps :
                            actions[i].Package = p \/ Under(p, actions[i].Package) })

C15_Witness ==
  /\ Built
  /\ \E i, j \in BuildSteps :
       /\ actions[i].Package = XYZ /\ actions[j].Package = AB
       /\ actions[i].Duration = 2 /\ actions[j].Duration = 1
       /\ tree[StdPrefix \o XYZ].d = 2
       /\ tree[StdNode].d = 2
       /\ tree[AB].d = 1

\* C20: buildTree gives a node the depth of the number of nodes above it; after
\* pruneTree with a single focus path P that the tree has, at built depth F, every
\* node below P, of built depth D, is of depth D - F, at every level below P.
C20_Rebase ==
  /\ Built => \A q \in DOMAIN tree : tree[q].depth = Ancestors(q)
  /\ (Pruned /\ Len(focus) = 1) =>
       \A P \in FocusPaths \cap DOMAIN tree :
         \A q \in DOMAIN tree :
           Under(P, q) => /\ q \in Remaining({RootPath})
                          /\ tree[q].depth = Ancestors(q) - Ancestors(P)

C20_Witness ==
  /\ Pruned
  /\ focus = <<AB>>
  /\ ABCD \in Remaining({RootPath})
  /\ tree[ABC].depth = 1
  /\ tree[ABCD].depth = 2

\* C21: the own-duration column of an emitted node that stands for a step, of any
\* id from 0 on, holds the duration of that step; that of a node that stands for
\* none is blank.
C21_OwnDuration ==
  \A k \in DOMAIN out :
    IF out[k].ID = -1
    THEN OwnColumn(out[k]) = <<>>
    ELSE OwnColumn(out[k]) = <<actions[out[k].ID].Duration>>

\* C25: pruneTree changes depths and child sets of the tree only: no node's
\* cumulative duration, step id or path changes, the root stays, and the keep
\* tree is not written; so after pruning every node that remains, the root too,
\* still holds the sum of the durations of all the build steps at or below its
\* path, those of deleted children included.
C25_Frame ==
  /\ [][pc = "prune" =>
          /\ keep' = keep
          /\ DOMAIN tree' = DOMAIN tree
          /\ \A q \in DOMAIN tree :
               /\ tree'[q].d = tree[q].d
               /\ tree'[q].id = tree[q].id
               /\ tree'[q].path = tree[q].path]_vars
  /\ [](Pruned =>
          /\ RootPath \in DOMAIN tree
          /\ \A q \in Remaining({RootPath}) : tree[q].d = SumDur(StepsThrough(q)))

C25_Witness ==
  /\ Pruned
  /\ focus = <<ABCD>>
  /\ tree[RootPath].dir = {AB}
  /\ tree[RootPath].d = 3
  /\ tree[AB].d = 2
  /\ StdNode \in DOMAIN tree /\ tree[StdNode].d = 1

\* C26: pruneTree deletes no node at or below a focus path: every node of the
\* built tree whose path is a focus path or continues one from a "/" remains,
\* also when the focus list holds a path and a path deeper below it.
C26_FocusKept ==
  Pruned =>
    \A q \in DOMAIN tree :
      (\E P \in FocusPaths : q = P \/ Under(P, q)) => q \in Remaining({RootPath})

\* The node of path p is above the node of path q in the tree.
IsAncestor(p, q) == (p = RootPath /\ q # RootPath) \/ (p # RootPath /\ Under(p, q))

\* C27: the traversal ends; it emits no node twice, a node before every node
\* below it, and all the nodes below a node before the node's next sibling; the
\* indentation of an emitted node is the number of nodes above it; without a
\* level limit every node that the tree has left is emitted, once.
C27_Coverage ==
  /\ (pc = "emit") ~> (pc = "done")
  /\ [](\A i, j \in DOMAIN out :
          /\ i # j => out[i].Package # out[j].Package
          /\ IsAncestor(out[i].Package, out[j].Package) =>
               /\ i < j
               /\ \A k \in i + 1 .. j - 1 : IsAncestor(out[i].Package, out[k].Package)
          /\ out[i].Indent = Ancestors(out[i].Package))
  /\ []((pc = "done" /\ level < 0) =>
          /\ { out[k].Package : k \in DOMAIN out } = Remaining({RootPath})
          /\ Len(out) = Cardinality(Remaining({RootPath})))

C27_Witness ==
  /\ pc = "done" /\ level < 0
  /\ Len(out) = 6
  /\ out[2].Package = AB /\ out[4].Package = ABCD /\ out[4].Indent = 3
  /\ out[5].Package = StdNode /\ out[5].Indent = 1
  /\ out[6].Indent = 2

\* ------------------------------------------------------------------ graph properties
Edge(i, j) == \E k \in DOMAIN actions[i].Deps : actions[i].Deps[k] = j

\* The steps reachable from the set S along dependency edges whose source is in Via.
RECURSIVE ReachVia(_, _)
ReachVia(S, Via) ==
  LET T == S \cup { j \in DOMAIN actions : \E i \in S \cap Via : Edge(i, j) }
  IN  IF T = S THEN S ELSE ReachVia(T, Via)

AllIds == DOMAIN actions
NonNop == { i \in DOMAIN actions : actions[i].Mode # "nop" }

Reach(i, j) == j \in ReachVia({i}, AllIds)

Acyclic == \A i \in DOMAIN actions : \A j \in DOMAIN actions : Edge(i, j) => ~Reach(j, i)

HasBuildFor(p) == \E i \in DOMAIN actions : actions[i].Mode = "build" /\ actions[i].Package = p
HasBuild == \E i \in DOMAIN actions : actions[i].Mode = "build"

\* The first build-mode step and the first build-mode step of the target package,
\* stated without the operators graph itself uses.
IsRoot(r) ==
  /\ r \in DOMAIN actions
  /\ actions[r].Mode = "build"
  /\ \A j \in DOMAIN actions : j < r => actions[j].Mode # "build"

IsTarget(t) ==
  /\ t \in DOMAIN actions
  /\ actions[t].Mode = "build" /\ actions[t].Package = why
  /\ \A j \in DOMAIN actions : j < t => ~(actions[j].Mode = "build" /\ actions[j].Package = why)

\* The search with a target has run to its end.
Searched == why # <<>> /\ err = "" /\ pc \in {"render", "done"}

OnPath(s, r, t) == Reach(r, s) /\ Reach(s, t)

\* The steps reached from S along paths whose steps are all other than nop steps.
RECURSIVE LiveVia(_)
LiveVia(S) ==
  LET T == S \cup { j \in NonNop : \E i \in S : Edge(i, j) }
  IN  IF T = S THEN S ELSE LiveVia(T)

OnLivePath(s, r, t) == s \in LiveVia({r}) /\ t \in LiveVia({s})

Kept == { i \in DOMAIN actions : show[i] = follow }

\* C1 as stated: every kept step, the target included, lies on a path of
\* dependency edges from the root to the target.
C1_Original ==
  (Searched /\ Acyclic) =>
    \A r, t \in DOMAIN actions : (IsRoot(r) /\ IsTarget(t)) =>
      \A s \in Kept : OnPath(s, r, t)

\* C1 amended: every kept step other than the target lies on a path of dependency
\* edges from the root to the target; the target itself is kept whether or not the
\* root reaches it.
C1_Soundness ==
  (Searched /\ Acyclic) =>
    \A r, t \in DOMAIN actions : (IsRoot(r) /\ IsTarget(t)) =>
      /\ t \in Kept
      /\ \A s \in Kept : s = t \/ OnPath(s, r, t)

C1_Witness ==
  /\ Searched /\ Acyclic
  /\ \E r, t, s \in DOMAIN actions :
       /\ IsRoot(r) /\ IsTarget(t) /\ s \notin {r, t}
       /\ Edge(r, s) /\ Edge(s, t) /\ ~Edge(r, t)
       /\ Kept = {r, s, t}

\* C2 as stated: every step on a dependency path from the root to the target ends kept.
C2_Original ==
  (Searched /\ Acyclic) =>
    \A r, t \in DOMAIN actions : (IsRoot(r) /\ IsTarget(t)) =>
      \A s \in DOMAIN actions : OnPath(s, r, t) => s \in Kept

\* C2 amended: every step on a dependency path from the root to the target that
\* passes through no nop step ends kept, whatever the order of the dependency lists.
C2_Completeness ==
  (Searched /\ Acyclic) =>
    \A r, t \in DOMAIN actions : (IsRoot(r) /\ IsTarget(t)) =>
      \A s \in DOMAIN actions : OnLivePath(s, r, t) => s \in Kept

C2_Witness ==
  /\ Searched /\ Acyclic
  /\ \E r, t, s \in DOMAIN actions :
       /\ IsRoot(r) /\ IsTarget(t) /\ s \notin {r, t}
       /\ OnLivePath(s, r, t) /\ Edge(r, t)
       /\ actions[r].Deps[1] = t
       /\ Kept = {r, s, t}

\* C3 as stated: every step the root reaches along dependency edges is kept or avoided.
C3_Original ==
  (Searched /\ Acyclic) =>
    \A r \in DOMAIN actions : IsRoot(r) =>
      \A s \in DOMAIN actions : Reach(r, s) => show[s] \in {follow, avoid}

\* The steps whose dependency lists the search opens: neither nop nor the target.
Opened(t) == NonNop \ {t}

\* C3 amended: every step the root reaches along a dependency path on which no step
\* before the last is a nop step or the target is kept or avoided, never unknown.
C3_Classified ==
  (Searched /\ Acyclic) =>
    \A r, t \in DOMAIN actions : (IsRoot(r) /\ IsTarget(t)) =>
      \A s \in ReachVia({r}, Opened(t)) : show[s] \in {follow, avoid}

C3_Witness ==
  /\ Searched /\ Acyclic
  /\ \E r, t, s \in DOMAIN actions :
       /\ IsRoot(r) /\ IsTarget(t) /\ s \notin {r, t}
       /\ s \in ReachVia({r}, Opened(t))
       /\ actions[s].Mode # "nop"
       /\ show[s] = avoid /\ show[r] = follow

\* C4: with the empty target every step other than a nop step ends kept and every nop
\* step ends avoided, whatever the edges and whether or not there is a root, and
\* the search is never entered.
C4_NoTarget ==
  why = <<>> =>
    /\ pc # "pathfind" /\ stack = <<>> /\ err = ""
    /\ pc \in {"render", "done"} =>
         \A i \in DOMAIN actions :
           show[i] = IF actions[i].Mode = "nop" THEN avoid ELSE follow

C4_Witness ==
  /\ why = <<>> /\ pc = "done"
  /\ ~HasBuild
  /\ \E i, j \in DOMAIN actions :
       /\ actions[i].Mode = "nop" /\ actions[j].Mode = "link"
       /\ Edge(j, i) /\ show[i] = avoid /\ show[j] = follow

\* C5: a target that no build-mode step carries makes the query fail, and nothing is
\* written, neither before nor after the error.
C5_NotFound ==
  (why # <<>> /\ ~HasBuildFor(why)) =>
    /\ out = <<>>
    /\ pc \in {"graph", "done"}
    /\ pc = "done" => err # ""

C5_Witness ==
  /\ why # <<>> /\ ~HasBuildFor(why) /\ HasBuild
  /\ \E i \in DOMAIN actions : actions[i].Mode = "link" /\ actions[i].Package = why
  /\ pc = "done" /\ err # "" /\ out = <<>>

EmittedNodes == { out[k].from : k \in { k \in DOMAIN out : out[k].kind = "node" } }
EmittedEdges ==
  { <<out[k].from, out[k].to>> : k \in { k \in DOMAIN out : out[k].kind = "edge" } }

\* C6 as stated: without any build-mode step the query fails and emits nothing,
\* for every target, the empty one included.
C6_Original ==
  (~HasBuild /\ pc = "done") => (err # "" /\ out = <<>>)

\* C6 amended: without any build-mode step the query fails and emits nothing when
\* the target is not empty; with the empty target it succeeds and emits the graph of
\* every step other than the nop steps.
C6_NoRoot ==
  (~HasBuild /\ pc = "done") =>
    IF why # <<>>
    THEN err # "" /\ out = <<>>
    ELSE err = "" /\ out # <<>> /\ EmittedNodes = NonNop

C6_Witness ==
  /\ ~HasBuild /\ DOMAIN actions # {} /\ pc = "done"
  /\ why # <<>> /\ err # "" /\ out = <<>>
  /\ \E i \in DOMAIN actions : actions[i].Mode = "link" /\ actions[i].Deps # <<>>

\* C7: the emitted nodes are exactly the kept steps, and an edge is emitted exactly
\* for a dependency both of whose ends are kept; so every edge joins emitted nodes
\* and none touches a nop step.
C7_Render ==
  (pc = "done" /\ err = "") =>
    /\ EmittedNodes = Kept
    /\ EmittedEdges = { e \in Kept \X Kept : Edge(e[1], e[2]) }
    /\ \A e \in EmittedEdges :
         /\ e[1] \in EmittedNodes /\ e[2] \in EmittedNodes
         /\ actions[e[1]].Mode # "nop" /\ actions[e[2]].Mode # "nop"

C7_Witness ==
  /\ pc = "done" /\ err = "" /\ why # <<>>
  /\ EmittedEdges # {}
  /\ \E i \in Kept : \E j \in DOMAIN actions : Edge(i, j) /\ j \notin Kept
  /\ \E i \in DOMAIN actions : actions[i].Mode = "nop" /\ \E j \in Kept : Edge(i, j)

\* ------------------------------------------------------------------ specification
\* The step at the head of frame d of the stack.
HeadAt(d) == stack[d][1]

HeadsDistinct == \A d1, d2 \in DOMAIN stack : d1 # d2 => HeadAt(d1) # HeadAt(d2)

\* C16 as stated: with or without a cycle the marks short-circuit every revisit,
\* so no step is opened while it is open: the stack never holds a step at the head
\* of two frames, and never more frames than there are steps.
C16_Original ==
  pc = "pathfind" => HeadsDistinct /\ Len(stack) <= NumActions

\* The loop of pathfind takes a pass with the step n at the top of the stack.
Visits(n) ==
  /\ pc = "pathfind" /\ stack # <<>> /\ stack' # stack
  /\ n = HeadAt(Len(stack))

\* C16 amended: the marks short-circuit the revisit of a step that is follow or
\* avoid only: such a step is never expanded.  On an acyclic step sequence no step
\* heads two frames and the stack is no deeper than the number of steps.  A step
\* with dependencies that is reached again through a cycle while it is unknown is
\* expanded again, on top of the frame it already heads, so the stack can grow
\* past the number of steps.
C16_Revisit ==
  /\ [](pc = "pathfind" => (Acyclic => HeadsDistinct /\ Len(stack) <= NumActions))
  /\ [][\A n \in DOMAIN actions :
          Visits(n) =>
            /\ show[n] # unknown => Len(stack') <= Len(stack) /\ expanded' = expanded
            /\ (show[n] = unknown /\ edges(n) # <<>>
                  /\ \E d \in 1 .. (Len(stack) - 1) : HeadAt(d) = n)
                 => stack' = Append(stack, edges(n)) /\ show' = show]_vars

C16_Witness ==
  /\ pc = "pathfind"
  /\ Len(stack) > NumActions
  /\ \E d \in DOMAIN stack :
       /\ d + 2 \in DOMAIN stack /\ d + 4 \in DOMAIN stack
       /\ HeadAt(d) = HeadAt(d + 2) /\ HeadAt(d + 2) = HeadAt(d + 4)
       /\ expanded[HeadAt(d)] = 2

\* The pass of pathfind at the top of the stack finds a step that is unknown and
\* has no dependencies.
VisitsLeaf(n) == Visits(n) /\ show[n] = unknown /\ edges(n) = <<>>

\* C17 as stated: a visited step that is unknown and has no dependencies resolves
\* as a follow step does: the head of every frame of the stack becomes follow.
C17_Original ==
  [][\A n \in DOMAIN actions :
       VisitsLeaf(n) => \A d \in DOMAIN stack : show'[HeadAt(d)] = follow]_vars

\* C17 amended: a visited step that is unknown and has no dependencies resolves
\* nothing: it is marked avoid by the trim, no step becomes follow in that pass,
\* and the only marks that change are those of the heads that the trim takes off
\* the stack, from unknown to avoid.
C17_LeafAvoided ==
  [][\A n \in DOMAIN actions :
       VisitsLeaf(n) =>
         /\ show'[n] = avoid
         /\ \A i \in DOMAIN actions :
              show'[i] # show[i] =>
                /\ show'[i] = avoid /\ show[i] = unknown
                /\ \E d \in DOMAIN stack : HeadAt(d) = i /\ d >= Len(stack')]_vars

C17_Witness ==
  /\ pc = "pathfind"
  /\ \E r, s, t \in DOMAIN actions :
       /\ stack = << <<r>>, <<t>> >>
       /\ actions[r].Deps = <<s, t>>
       /\ actions[s].Mode = "build" /\ actions[s].Deps = <<>>
       /\ show[s] = avoid /\ show[r] = unknown /\ show[t] = follow
       /\ expanded[r] = 1

\* C18: on an acyclic step sequence the dependency list of a step is appended to
\* the stack at most once during a search, however many paths reach the step;
\* once the step is off the stack again it is follow or avoid, never unknown.
C18_Memoized ==
  Acyclic =>
    \A i \in DOMAIN actions :
      /\ expanded[i] <= 1
      /\ (expanded[i] = 1 /\ ~\E d \in DOMAIN stack : HeadAt(d) = i) => show[i] # unknown

C18_Witness ==
  /\ Searched /\ Acyclic
  /\ \E p1, p2, s \in DOMAIN actions :
       /\ p1 # p2 /\ Edge(p1, s) /\ Edge(p2, s)
       /\ expanded[p1] = 1 /\ expanded[p2] = 1
       /\ actions[s].Deps # <<>> /\ expanded[s] = 1

\* The build steps of the destination package.
TargetSteps == { i \in DOMAIN actions : actions[i].Mode = "build" /\ actions[i].Package = why }

\* C19: with a destination, the marks the search starts from hold exactly one
\* follow step, the build step of the destination package of the lowest index;
\* a later build step of the same package starts unknown.
C19_FirstMatch ==
  [][(pc = "graph" /\ pc' # "graph" /\ why # <<>> /\ TargetSteps # {}) =>
       /\ pc' = "pathfind"
       /\ \A i \in DOMAIN actions :
            show'[i] = follow <=> (i \in TargetSteps /\ \A j \in TargetSteps : i <= j)
       /\ \A i \in TargetSteps : show'[i] \in {follow, unknown}]_vars

C19_Witness ==
  /\ pc = "pathfind"
  /\ \A i \in DOMAIN actions : expanded[i] = 0
  /\ \E r, t, u \in DOMAIN actions :
       /\ stack = << <<r>> >>
       /\ r < t /\ t < u
       /\ TargetSteps = {t, u}
       /\ show[t] = follow /\ show[u] = unknown /\ show[r] = unknown

\* C22: on an acyclic step sequence, whether the destination is reached from the
\* root or not, the search ends; it ends with the stack empty and the root follow
\* or avoid.
C22_Terminates ==
  /\ (pc = "pathfind" /\ Acyclic) ~> (pc = "done")
  /\ [][(pc = "pathfind" /\ pc' # "pathfind" /\ Acyclic) =>
          /\ stack' = <<>>
          /\ \A r \in DOMAIN actions : IsRoot(r) => show'[r] \in {follow, avoid}]_vars

C22_Witness ==
  /\ pc = "done" /\ Searched /\ Acyclic
  /\ stack = <<>>
  /\ \E r, s, t \in DOMAIN actions :
       /\ IsRoot(r) /\ IsTarget(t) /\ r # t
       /\ Edge(r, s) /\ Edge(s, t) /\ ~Reach(t, r)
       /\ show[r] = follow
       /\ expanded[r] = 1 /\ expanded[s] = 1

\* C23: during a search over an acyclic step sequence a mark changes only from
\* unknown, to follow or to avoid: an avoid step, a nop step among them, never
\* becomes follow, and a follow step never becomes avoid or unknown.
C23_Monotone ==
  [][(pc = "pathfind" /\ Acyclic) =>
       \A i \in DOMAIN actions :
         show'[i] # show[i] => show[i] = unknown /\ show'[i] \in {follow, avoid}]_vars

C23_Witness ==
  /\ pc = "done" /\ Searched /\ Acyclic
  /\ \E r, n, s, t \in DOMAIN actions :
       /\ IsRoot(r) /\ IsTarget(t)
       /\ actions[r].Deps = <<n, s, t>>
       /\ actions[n].Mode = "nop" /\ actions[s].Mode = "build"
       /\ show[n] = avoid /\ show[s] = avoid
       /\ show[r] = follow /\ show[t] = follow

\* The list a is what is left of the list b from one of its entries on.
IsSuffix(a, b) == \E k \in 1 .. Len(b) : a = SubSeq(b, k, Len(b))

\* C24: at each pass of a search over an acyclic step sequence no frame of the
\* stack is empty, the bottom frame is the root alone, every other frame is what
\* is left of the dependency list of the head of the frame below, no step heads
\* two frames, and there are no more frames than steps.
C24_StackInvariant ==
  (pc = "pathfind" /\ Acyclic) =>
    /\ \A d \in DOMAIN stack : stack[d] # <<>>
    /\ stack # <<>> => Len(stack[1]) = 1 /\ IsRoot(stack[1][1])
    /\ \A d \in DOMAIN stack : d > 1 =>
         /\ IsSuffix(stack[d], actions[stack[d - 1][1]].Deps)
         /\ Edge(stack[d - 1][1], stack[d][1])
    /\ \A d1, d2 \in DOMAIN stack : d1 < d2 => stack[d1][1] # stack[d2][1]
    /\ Len(stack) <= NumActions

C24_Witness ==
  /\ pc = "pathfind" /\ Acyclic
  /\ \E r, a, b, c \in DOMAIN actions :
       /\ actions[r].Deps = <<a, b>>
       /\ stack = << <<r>>, <<b>>, actions[b].Deps >>
       /\ stack[3][1] = c
       /\ show[a] = avoid

InitGraph ==
  /\ \E n \in 0 .. MaxSteps :
       \E E \in EdgeSets(n) :
         \E d \in DepLists(E, n) :
           \E k \in [Ids(n) -> GraphKinds] : actions = GraphActions(k, d)
  /\ why \in {<<>>, PkgT}
  /\ show = [i \in DOMAIN actions |-> unknown]
  /\ shown = 0
  /\ stack = <<>>
  /\ expanded = [i \in DOMAIN actions |-> 0]
  /\ pc = "graph"
  /\ err = ""
  /\ out = <<>>
  /\ TreeIdle

NextGraph == GraphBegin \/ PathfindStep \/ PathfindReturn \/ Render

SpecGraph == InitGraph /\ [][NextGraph]_vars

\* graph runs to its end: the loops of graph.go have no wait in them, so a pass
\* that can be taken is taken.
SpecGraphFair == InitGraph /\ [][NextGraph]_vars /\ WF_vars(NextGraph)

\* Longer step sequences, of build and nop steps with a destination: one step and
\* one dependency reference more than InitGraph has, so that a step with
\* dependencies of its own is reached by more than one path.
DeepKinds == { k \in GraphKinds : k.Mode # "link" }

DeepEdgeSets(n) ==
  { E \in SUBSET { e \in Ids(n) \X Ids(n) : e[1] # e[2] } : Cardinality(E) <= MaxEdges + 1 }

InitGraphDeep ==
  /\ \E E \in DeepEdgeSets(MaxSteps + 1) :
       \E d \in DepLists(E, MaxSteps + 1) :
         \E k \in [Ids(MaxSteps + 1) -> DeepKinds] : actions = GraphActions(k, d)
  /\ why = PkgT
  /\ show = [i \in DOMAIN actions |-> unknown]
  /\ shown = 0
  /\ stack = <<>>
  /\ expanded = [i \in DOMAIN actions |-> 0]
  /\ pc = "graph"
  /\ err = ""
  /\ out = <<>>
  /\ TreeIdle

SpecGraphDeep == InitGraphDeep /\ [][NextGraph]_vars

====
